---- MODULE Spec2Model ----
(***************************************************************************)
(* Model of the in-memory shell emulator (TerminalEmulator over the        *)
(* module-level virtualFS object).                                         *)
(*                                                                         *)
(* Strings are sequences of atoms (an atom is a run of characters that no  *)
(* operation of the program splits; "/", " ", "=" and the quote characters *)
(* are atoms of their own), so that split, join, trim and replace are      *)
(* computed and not assumed.                                               *)
(*                                                                         *)
(* The JavaScript heap reachable from virtualFS is a tree of plain objects *)
(* and strings.  It is kept as a function from property paths (the keys    *)
(* followed from virtualFS) to values; an object value carries its own     *)
(* keys in insertion order.                                                *)
(***************************************************************************)
EXTENDS Integers, Sequences, FiniteSets, TLC

VARIABLES fs, currentPath, env, made

vars == <<fs, currentPath, env, made>>

(* ------------------------------ bounds --------------------------------- *)

\* number of nodes the commands may create in one behaviour
MaxMade == 2

(* ------------------------------ strings -------------------------------- *)

S(a) == <<a>>

Empty == <<>>

RECURSIVE Join(_, _)
\* Array.prototype.join
Join(xs, sep) ==
  IF Len(xs) = 0 THEN Empty
  ELSE IF Len(xs) = 1 THEN xs[1]
  ELSE xs[1] \o sep \o Join(Tail(xs), sep)

RECURSIVE SplitAcc(_, _, _, _)
SplitAcc(s, sep, cur, acc) ==
  IF Len(s) = 0 THEN Append(acc, cur)
  ELSE IF Head(s) = sep THEN SplitAcc(Tail(s), sep, Empty, Append(acc, cur))
  ELSE SplitAcc(Tail(s), sep, Append(cur, Head(s)), acc)

\* String.prototype.split(sep) for a one-character separator
Split(s, sep) == SplitAcc(s, sep, Empty, <<>>)

\* Array.prototype.filter((s) => s) on strings: drops the empty ones
FilterNonEmpty(xs) == SelectSeq(xs, LAMBDA x : x # Empty)

RECURSIVE TrimLeft(_)
TrimLeft(s) == IF Len(s) > 0 /\ Head(s) = " " THEN TrimLeft(Tail(s)) ELSE s

RECURSIVE TrimRight(_)
TrimRight(s) ==
  IF Len(s) > 0 /\ s[Len(s)] = " " THEN TrimRight(SubSeq(s, 1, Len(s) - 1)) ELSE s

\* String.prototype.trim
Trim(s) == TrimRight(TrimLeft(s))

RECURSIVE SplitWsAcc(_, _, _)
SplitWsAcc(s, cur, acc) ==
  IF Len(s) = 0 THEN Append(acc, cur)
  ELSE IF Head(s) = " " THEN SplitWsAcc(TrimLeft(s), Empty, Append(acc, cur))
  ELSE SplitWsAcc(Tail(s), Append(cur, Head(s)), acc)

\* split(" "): every single blank separates
SplitWs_EveryBlank(s) == Split(s, " ")

\* String.prototype.split(/\s+/)
SplitWs(s) == SplitWsAcc(s, Empty, <<>>)

\* String.prototype.toLowerCase on one atom (the atoms the inputs use)
LowerAtom(a) ==
  CASE a = "CD" -> "cd"
    [] a = "Echo" -> "echo"
    [] a = "ECHO" -> "echo"
    [] a = "PWD" -> "pwd"
    [] a = "Ls" -> "ls"
    [] a = "LS" -> "ls"
    [] a = "HELP" -> "help"
    [] a = "CLEAR" -> "clear"
    [] a = "DATE" -> "date"
    [] a = "WHOAMI" -> "whoami"
    [] a = "CAT" -> "cat"
    [] a = "MKDIR" -> "mkdir"
    [] a = "TOUCH" -> "touch"
    [] a = "RM" -> "rm"
    [] a = "UNAME" -> "uname"
    [] a = "ENV" -> "env"
    [] a = "EXPORT" -> "export"
    [] a = "HISTORY" -> "history"
    [] a = "UNKNOWNCOMMAND" -> "unknowncommand"
    [] OTHER -> a

toLowerCase(s) == [i \in 1..Len(s) |-> LowerAtom(s[i])]

\* String.prototype.replace(/['"]/g, "")
StripQuotes(s) == SelectSeq(s, LAMBDA a : a \notin {"'", "\""})

IsPrefix(a, q) == Len(q) >= Len(a) /\ SubSeq(q, 1, Len(a)) = a

(* ------------------------------- heap ---------------------------------- *)

kName == S("name")
kType == S("type")
kContent == S("content")
kChildren == S("children")

tHome == S("home")
tUser == S("lindroid-user")
tDocuments == S("Documents")
tReadme == S("readme.txt")

\* an object value with its own keys in insertion order
ObjV(keys) == [t |-> "obj", s |-> Empty, ks |-> keys]
\* a string value
StrV(s) == [t |-> "str", s |-> s, ks |-> <<>>]

\* { name, type: "directory", children: {...} } stored at property path p
DirNode(p, nm, childKeys) ==
  (p :> ObjV(<<kName, kType, kChildren>>))
  @@ (Append(p, kName) :> StrV(nm))
  @@ (Append(p, kType) :> StrV(S("directory")))
  @@ (Append(p, kChildren) :> ObjV(childKeys))

\* { name, type: "file", content } stored at property path p
FileNode(p, nm, content) ==
  (p :> ObjV(<<kName, kType, kContent>>))
  @@ (Append(p, kName) :> StrV(nm))
  @@ (Append(p, kType) :> StrV(S("file")))
  @@ (Append(p, kContent) :> StrV(content))

pHome == <<tHome>>
pHomeKids == <<tHome, kChildren>>
pUser == <<tHome, kChildren, tUser>>
pUserKids == <<tHome, kChildren, tUser, kChildren>>

SeedDirs == <<tDocuments, S("Downloads"), S("Pictures"), S("Videos"), S("Projects")>>

RECURSIVE SeedDirNodes(_)
SeedDirNodes(i) ==
  IF i = 0 THEN <<>> :> ObjV(<<tHome>>)
  ELSE DirNode(Append(pUserKids, SeedDirs[i]), SeedDirs[i], <<>>) @@ SeedDirNodes(i - 1)

\* the module-level virtualFS literal; the object itself is the value at the
\* empty path
virtualFS ==
  DirNode(pHome, tHome, <<tUser>>)
  @@ DirNode(pUser, tUser, SeedDirs \o <<tReadme, S("script.sh")>>)
  @@ FileNode(Append(pUserKids, tReadme), tReadme,
              S("Welcome to Lindroid!\nThis is a simulated Linux environment."))
  @@ FileNode(Append(pUserKids, S("script.sh")), S("script.sh"),
              S("#!/bin/bash\necho 'Hello from Lindroid!'"))
  @@ SeedDirNodes(Len(SeedDirs))

\* names every plain object inherits from Object.prototype (and every other
\* value from its own prototype chain); the inputs use only this one
ProtoNames == {S("constructor")}

\* JavaScript values as the code sees them
Undef == [k |-> "undef", p |-> <<>>, s |-> Empty]
Null == [k |-> "null", p |-> <<>>, s |-> Empty]
Ref(p) == [k |-> "obj", p |-> p, s |-> Empty]
Prim(s) == [k |-> "str", p |-> <<>>, s |-> s]
\* an inherited built-in function
Builtin == [k |-> "builtin", p |-> <<>>, s |-> Empty]

Truthy(v) == v.k \in {"obj", "builtin"} \/ (v.k = "str" /\ v.s # Empty)

\* whether key is an own property of the object at p
HasOwn(f, p, key) == Append(p, key) \in DOMAIN f

\* property read v[key]
Get(f, v, key) ==
  IF v.k = "obj" /\ HasOwn(f, v.p, key)
  THEN LET x == f[Append(v.p, key)]
       IN IF x.t = "obj" THEN Ref(Append(v.p, key)) ELSE Prim(x.s)
  ELSE IF v.k \in {"obj", "str", "builtin"} /\ key \in ProtoNames THEN Builtin
  ELSE IF v.k = "builtin" /\ key = kName THEN Prim(S("Object"))
  ELSE Undef

\* node[key] = <object literal new>, new being keyed by the paths below p
Assign(f, p, key, new) ==
  LET base == Append(p, key)
      keep == {q \in DOMAIN f : ~IsPrefix(base, q)}
  IN [q \in keep \cup DOMAIN new |->
        IF q \in DOMAIN new THEN new[q]
        ELSE IF q = p /\ ~HasOwn(f, p, key)
             THEN [f[p] EXCEPT !.ks = Append(@, key)]
             ELSE f[q]]

\* delete node[key]
Delete(f, p, key) ==
  IF ~HasOwn(f, p, key) THEN f
  ELSE LET base == Append(p, key)
           keep == {q \in DOMAIN f : ~IsPrefix(base, q)}
       IN [q \in keep |->
             IF q = p THEN [f[p] EXCEPT !.ks = SelectSeq(@, LAMBDA k : k # key)]
             ELSE f[q]]

(* ----------------------------- emulator -------------------------------- *)

\* the values executeCommand can hand back: a string, a non-string object
\* (where the code returns a property that holds one), or a raised TypeError
RetStr(s) == [k |-> "str", s |-> s]
RetObj == [k |-> "obj", s |-> Empty]
RetThrow == [k |-> "throw", s |-> Empty]

\* the emulator's fields and the tree after a call, with the value returned
Res(f, cp, e, ret) == [fs |-> f, currentPath |-> cp, env |-> e, ret |-> ret]

Same(st, ret) == Res(st.fs, st.currentPath, st.env, ret)

\* a default working directory one level too high
initialPath_Home == <<tHome>>

initialPath == <<tHome, tUser>>

initialEnv ==
  << [key |-> S("USER"), value |-> S("lindroid-user")],
     [key |-> S("HOME"), value |-> <<"/", "home", "/", "lindroid-user">>],
     [key |-> S("PATH"), value |-> S("/usr/local/bin:/usr/bin:/bin")],
     [key |-> S("SHELL"), value |-> S("/bin/bash")] >>

getCurrentPath(cp) == S("/") \o Join(cp, S("/"))

RECURSIVE getNodeFrom(_, _, _)
getNodeFrom(f, cur, path) ==
  IF path = <<>> THEN cur
  ELSE LET x == Get(f, cur, Head(path))
       IN IF ~Truthy(x) THEN Null
          ELSE LET ch == Get(f, x, kChildren)
               IN getNodeFrom(f, IF Truthy(ch) THEN ch ELSE x, Tail(path))

getNode(f, path) == getNodeFrom(f, Ref(<<>>), path)

helpCommand == RetStr(S("Available commands: ..."))

\* Object.values(node): the own enumerable values in insertion order (the
\* characters of a string and the properties of a function have no type)
Entries(f, node) ==
  IF node.k = "obj"
  THEN LET ks == f[node.p].ks IN [i \in 1..Len(ks) |-> Get(f, node, ks[i])]
  ELSE <<>>

TypeIs(f, e, tname) == Get(f, e, kType) = Prim(S(tname))

\* what join makes of e.name
NameText(f, e) ==
  LET n == Get(f, e, kName)
  IN IF n.k = "str" THEN n.s
     ELSE IF n.k = "obj" THEN S("[object Object]")
     ELSE Empty

\* ls that moves into the directory it is given
lsCommand_EntersDirectory(st, args) ==
  LET at == IF Len(args) = 0 THEN st.currentPath ELSE Append(st.currentPath, args[1])
      node == getNode(st.fs, at)
      entries == Entries(st.fs, node)
      dirs == SelectSeq(entries, LAMBDA e : TypeIs(st.fs, e, "directory"))
      files == SelectSeq(entries, LAMBDA e : TypeIs(st.fs, e, "file"))
      all == dirs \o files
  IN IF ~Truthy(node) THEN Same(st, RetStr(S("ls: cannot access directory")))
     ELSE Res(st.fs, at, st.env,
              RetStr(Join([i \in 1..Len(all) |-> NameText(st.fs, all[i])], <<" ", " ">>)))

lsCommand(st, args) ==
  LET node == getNode(st.fs, st.currentPath)
      entries == Entries(st.fs, node)
      dirs == SelectSeq(entries, LAMBDA e : TypeIs(st.fs, e, "directory"))
      files == SelectSeq(entries, LAMBDA e : TypeIs(st.fs, e, "file"))
      all == dirs \o files
  IN IF ~Truthy(node) THEN Same(st, RetStr(S("ls: cannot access directory")))
     ELSE IF Len(entries) = 0 THEN Same(st, RetStr(Empty))
     ELSE Same(st, RetStr(Join([i \in 1..Len(all) |-> NameText(st.fs, all[i])],
                               <<" ", " ">>)))

\* cd with no argument that goes where the HOME variable points
cdHome_FromEnv(st) ==
  LET i == CHOOSE i \in 1..Len(st.env) : st.env[i].key = S("HOME")
  IN Res(st.fs, FilterNonEmpty(Split(st.env[i].value, "/")), st.env, RetStr(Empty))

\* cd with no argument
cdHome(st) == Res(st.fs, initialPath, st.env, RetStr(Empty))

\* cd ..
cdUp(st) ==
  Res(st.fs,
      IF Len(st.currentPath) > 1
      THEN SubSeq(st.currentPath, 1, Len(st.currentPath) - 1)
      ELSE st.currentPath,
      st.env, RetStr(Empty))

\* cd / that forgets to reset the path
cdRoot_KeepsPath(st) == Res(st.fs, st.currentPath, st.env, RetStr(Empty))

\* cd /
cdRoot(st) == Res(st.fs, <<>>, st.env, RetStr(Empty))

\* cd with an argument that starts with "/"
cdAbsolute(st, target) ==
  LET newPath == FilterNonEmpty(Split(target, "/"))
      node == getNode(st.fs, newPath)
  IN IF ~Truthy(node) \/ Get(st.fs, node, kType) # Prim(S("directory"))
     THEN Same(st, RetStr(S("cd: ") \o target \o S(": No such directory")))
     ELSE Res(st.fs, newPath, st.env, RetStr(Empty))

\* cd that follows the segments of a relative path and accepts whatever the
\* path resolves to
cdRelative_FollowsSegments(st, target) ==
  LET newPath == st.currentPath \o FilterNonEmpty(Split(target, "/"))
      node == getNode(st.fs, newPath)
  IN IF ~Truthy(node)
     THEN Same(st, RetStr(S("cd: ") \o target \o S(": No such directory")))
     ELSE Res(st.fs, newPath, st.env, RetStr(Empty))

\* cd with any other argument
cdRelative(st, target) ==
  LET currentNode == getNode(st.fs, st.currentPath)
      targetNode == Get(st.fs, currentNode, target)
  IN IF ~Truthy(currentNode) \/ ~Truthy(targetNode)
     THEN Same(st, RetStr(S("cd: ") \o target \o S(": No such directory")))
     ELSE IF Get(st.fs, targetNode, kType) # Prim(S("directory"))
     THEN Same(st, RetStr(S("cd: ") \o target \o S(": Not a directory")))
     ELSE Res(st.fs, Append(st.currentPath, target), st.env, RetStr(Empty))

cdCommand(st, args) ==
  IF Len(args) = 0 THEN cdHome(st)
  ELSE IF args[1] = S("..") THEN cdUp(st)
  ELSE IF args[1] = S("/") THEN cdRoot(st)
  ELSE IF Len(args[1]) > 0 /\ Head(args[1]) = "/" THEN cdAbsolute(st, args[1])
  ELSE cdRelative(st, args[1])

\* cat that prints whatever the name refers to, directories included
catCommand_IgnoresType(st, args) ==
  IF Len(args) = 0 THEN Same(st, RetStr(S("cat: missing file operand")))
  ELSE LET fileName == args[1]
           node == getNode(st.fs, st.currentPath)
           file == Get(st.fs, node, fileName)
           content == Get(st.fs, file, kContent)
       IN IF ~Truthy(node)
          THEN Same(st, RetStr(S("cat: ") \o fileName \o S(": No such file")))
          ELSE IF ~Truthy(file)
          THEN Same(st, RetStr(S("cat: ") \o fileName \o S(": No such file")))
          ELSE IF ~Truthy(content) THEN Same(st, RetStr(Empty))
          ELSE IF content.k = "str" THEN Same(st, RetStr(content.s))
          ELSE Same(st, RetObj)

catCommand(st, args) ==
  IF Len(args) = 0 THEN Same(st, RetStr(S("cat: missing file operand")))
  ELSE LET fileName == args[1]
           node == getNode(st.fs, st.currentPath)
           file == Get(st.fs, node, fileName)
           content == Get(st.fs, file, kContent)
       IN IF ~Truthy(node)
          THEN Same(st, RetStr(S("cat: ") \o fileName \o S(": No such file")))
          ELSE IF ~Truthy(file) \/ Get(st.fs, file, kType) # Prim(S("file"))
          THEN Same(st, RetStr(S("cat: ") \o fileName \o S(": No such file")))
          ELSE IF ~Truthy(content) THEN Same(st, RetStr(Empty))
          ELSE IF content.k = "str" THEN Same(st, RetStr(content.s))
          ELSE Same(st, RetObj)

\* node[key] = new: on an object of the tree the property is stored; on a
\* string the assignment raises a TypeError (class bodies are strict code);
\* on an inherited function it lands outside the tree
Store(st, node, key, new) ==
  IF node.k = "obj"
  THEN Res(Assign(st.fs, node.p, key, new), st.currentPath, st.env, RetStr(Empty))
  ELSE IF node.k = "str" THEN Same(st, RetThrow)
  ELSE Same(st, RetStr(Empty))

\* mkdir that stores the new node before it looks for an existing one
mkdirCommand_StoresFirst(st, args) ==
  IF Len(args) = 0 THEN Same(st, RetStr(S("mkdir: missing operand")))
  ELSE LET dirName == args[1]
           node == getNode(st.fs, st.currentPath)
           stored == Store(st, node, dirName, DirNode(Append(node.p, dirName), dirName, <<>>))
       IN IF ~Truthy(node) THEN Same(st, RetStr(S("mkdir: cannot create directory")))
          ELSE IF Truthy(Get(st.fs, node, dirName))
          THEN Res(stored.fs, st.currentPath, st.env,
                   RetStr(S("mkdir: cannot create directory '") \o dirName
                          \o S("': File exists")))
          ELSE stored

mkdirCommand(st, args) ==
  IF Len(args) = 0 THEN Same(st, RetStr(S("mkdir: missing operand")))
  ELSE LET dirName == args[1]
           node == getNode(st.fs, st.currentPath)
       IN IF ~Truthy(node) THEN Same(st, RetStr(S("mkdir: cannot create directory")))
          ELSE IF Truthy(Get(st.fs, node, dirName))
          THEN Same(st, RetStr(S("mkdir: cannot create directory '") \o dirName
                               \o S("': File exists")))
          ELSE Store(st, node, dirName, DirNode(Append(node.p, dirName), dirName, <<>>))

touchCommand(st, args) ==
  IF Len(args) = 0 THEN Same(st, RetStr(S("touch: missing file operand")))
  ELSE LET fileName == args[1]
           node == getNode(st.fs, st.currentPath)
       IN IF ~Truthy(node) THEN Same(st, RetStr(S("touch: cannot create file")))
          ELSE IF ~Truthy(Get(st.fs, node, fileName))
          THEN Store(st, node, fileName, FileNode(Append(node.p, fileName), fileName, Empty))
          ELSE Same(st, RetStr(Empty))

\* rm that refuses to remove a directory
rmCommand_KeepsDirectories(st, args) ==
  IF Len(args) = 0 THEN Same(st, RetStr(S("rm: missing operand")))
  ELSE LET fileName == args[1]
           node == getNode(st.fs, st.currentPath)
           err == RetStr(S("rm: cannot remove '") \o fileName \o S("': No such file"))
       IN IF ~Truthy(node) THEN Same(st, err)
          ELSE IF ~Truthy(Get(st.fs, node, fileName)) THEN Same(st, err)
          ELSE IF Get(st.fs, Get(st.fs, node, fileName), kType) = Prim(S("directory"))
          THEN Same(st, RetStr(S("rm: cannot remove '") \o fileName
                               \o S("': Is a directory")))
          ELSE IF node.k = "obj"
          THEN Res(Delete(st.fs, node.p, fileName), st.currentPath, st.env, RetStr(Empty))
          ELSE Same(st, RetStr(Empty))

rmCommand(st, args) ==
  IF Len(args) = 0 THEN Same(st, RetStr(S("rm: missing operand")))
  ELSE LET fileName == args[1]
           node == getNode(st.fs, st.currentPath)
           err == RetStr(S("rm: cannot remove '") \o fileName \o S("': No such file"))
       IN IF ~Truthy(node) THEN Same(st, err)
          ELSE IF ~Truthy(Get(st.fs, node, fileName)) THEN Same(st, err)
          ELSE IF node.k = "obj"
          THEN Res(Delete(st.fs, node.p, fileName), st.currentPath, st.env, RetStr(Empty))
          ELSE Same(st, RetStr(Empty))

unameCommand(st, args) ==
  IF \E i \in 1..Len(args) : args[i] = S("-a")
  THEN Same(st, RetStr(S("Linux lindroid 5.15.0-android aarch64 GNU/Linux")))
  ELSE Same(st, RetStr(S("Linux")))

\* Object.entries(this.env).map(([key, value]) => `${key}=${value}`).join("\n")
envCommand(st) ==
  Same(st, RetStr(Join([i \in 1..Len(st.env) |->
                          st.env[i].key \o S("=") \o st.env[i].value], S("\n"))))

\* this.env[key] = value: an existing key keeps its place, a new one is added
\* at the end
EnvSet(e, key, value) ==
  IF \E i \in 1..Len(e) : e[i].key = key
  THEN [i \in 1..Len(e) |-> IF e[i].key = key THEN [key |-> key, value |-> value] ELSE e[i]]
  ELSE Append(e, [key |-> key, value |-> value])

exportCommand(st, args) ==
  IF Len(args) = 0
  THEN Same(st, RetStr(Join([i \in 1..Len(st.env) |->
                               S("export ") \o st.env[i].key \o <<"=", "\"">>
                               \o st.env[i].value \o S("\"")], S("\n"))))
  ELSE LET assignment == args[1]
           pieces == Split(assignment, "=")
           key == pieces[1]
           hasValue == Len(pieces) >= 2
       IN IF key = Empty \/ ~hasValue \/ pieces[2] = Empty
          THEN Same(st, RetStr(S("export: invalid syntax")))
          ELSE Res(st.fs, st.currentPath, EnvSet(st.env, key, StripQuotes(pieces[2])),
                   RetStr(Empty))

\* this.env.USER
whoamiCommand(st) ==
  LET i == CHOOSE i \in 1..Len(st.env) : st.env[i].key = S("USER")
  IN Same(st, RetStr(st.env[i].value))

executeCommand(st, input, now) ==
  LET parts == SplitWs(Trim(input))
      command == toLowerCase(parts[1])
      args == Tail(parts)
  IN CASE command = S("help") -> Same(st, helpCommand)
       [] command = S("clear") -> Same(st, RetStr(S("__CLEAR__")))
       [] command = S("echo") -> Same(st, RetStr(Join(args, S(" "))))
       [] command = S("date") -> Same(st, RetStr(now))
       [] command = S("whoami") -> whoamiCommand(st)
       [] command = S("pwd") -> Same(st, RetStr(getCurrentPath(st.currentPath)))
       [] command = S("ls") -> lsCommand(st, args)
       [] command = S("cd") -> cdCommand(st, args)
       [] command = S("cat") -> catCommand(st, args)
       [] command = S("mkdir") -> mkdirCommand(st, args)
       [] command = S("touch") -> touchCommand(st, args)
       [] command = S("rm") -> rmCommand(st, args)
       [] command = S("uname") -> unameCommand(st, args)
       [] command = S("env") -> envCommand(st)
       [] command = S("export") -> exportCommand(st, args)
       [] command = S("history") ->
            Same(st, RetStr(S("Command history feature - use up/down arrows")))
       [] command = Empty -> Same(st, RetStr(Empty))
       [] OTHER -> Same(st, RetStr(S("bash: ") \o command
                     \o S(": command not found\nType 'help' for available commands.")))

(* -------------------------- inputs of the model ------------------------ *)

tD == S("d")
tCtor == S("constructor")
tDocsD == <<"Documents", "/", "d">>

\* operands of cd and cat: the seeded names, a fresh name, a name with a "/"
\* in it, a name every plain object inherits, a property name of the nodes
Names == {tHome, tUser, tDocuments, tReadme, tD, tDocsD, tCtor, kContent}

\* operands of mkdir
MkdirNames == {tD, kContent, tCtor}

\* operands of touch
TouchNames == {tUser, tCtor}

\* operands of rm
RmNames == {tUser, tDocuments, tD, tCtor}

AbsPaths ==
  { <<"/", "home">>,
    <<"/", "home", "/", "lindroid-user">>,
    <<"/", "home", "/", "lindroid-user", "/", "readme.txt">>,
    <<"/", "d">> }

\* what new Date().toString() may read
Dates == {S("Thu Nov 05 2026 10:00:00 GMT+0000"), S("Thu Nov 05 2026 10:00:01 GMT+0000")}

Cmd(c, arg) == <<c, " ">> \o arg

CdInputs == {S("cd")} \cup {Cmd("cd", a) : a \in {S(".."), S("/")} \cup Names \cup AbsPaths}
LsInputs == {S("ls")}
CatInputs == {S("cat")} \cup {Cmd("cat", a) : a \in Names}
MkdirInputs == {S("mkdir")} \cup {Cmd("mkdir", a) : a \in MkdirNames}
TouchInputs == {S("touch")} \cup {Cmd("touch", a) : a \in TouchNames}
RmInputs == {S("rm")} \cup {Cmd("rm", a) : a \in RmNames}
EchoInputs == {S("echo"), Cmd("echo", S("__CLEAR__")), <<"echo", " ", "a", " ", "b">>}
UnameInputs == {S("uname"), Cmd("uname", S("-a"))}
ExportInputs ==
  {S("export")} \cup
  {Cmd("export", a) : a \in { <<"A", "=", "b">>, S("A"), <<"=", "b">>, <<"A", "=">> }}
UnknownInputs == {S("unknowncommand")}

(* --------------------------- state machine ----------------------------- *)

State == [fs |-> fs, currentPath |-> currentPath, env |-> env]

Init ==
  /\ fs = virtualFS
  /\ currentPath = initialPath
  /\ env = initialEnv
  /\ made = 0

\* whether the call stored a new node
Grows(r) == Cardinality(DOMAIN r.fs) > Cardinality(DOMAIN fs)

\* the bound on the nodes a behaviour creates
Allowed(r) == Grows(r) => made < MaxMade

\* the variables after a call that returned r (a raised TypeError leaves the
\* emulator's fields and the tree as they were)
After(r) ==
  /\ fs' = r.fs
  /\ currentPath' = r.currentPath
  /\ env' = r.env
  /\ made' = IF Grows(r) THEN made + 1 ELSE made

Call(input) == executeCommand(State, input, Empty)

Help == Allowed(Call(S("help"))) /\ After(Call(S("help")))
Clear == Allowed(Call(S("clear"))) /\ After(Call(S("clear")))
Echo == \E i \in EchoInputs : Allowed(Call(i)) /\ After(Call(i))
Date ==
  \E now \in Dates :
    /\ Allowed(executeCommand(State, S("date"), now))
    /\ After(executeCommand(State, S("date"), now))
Whoami == Allowed(Call(S("whoami"))) /\ After(Call(S("whoami")))
Pwd == Allowed(Call(S("pwd"))) /\ After(Call(S("pwd")))
Ls == \E i \in LsInputs : Allowed(Call(i)) /\ After(Call(i))
Cd == \E i \in CdInputs : Allowed(Call(i)) /\ After(Call(i))
Cat == \E i \in CatInputs : Allowed(Call(i)) /\ After(Call(i))
Mkdir == \E i \in MkdirInputs : Allowed(Call(i)) /\ After(Call(i))
Touch == \E i \in TouchInputs : Allowed(Call(i)) /\ After(Call(i))
Rm == \E i \in RmInputs : Allowed(Call(i)) /\ After(Call(i))
Uname == \E i \in UnameInputs : Allowed(Call(i)) /\ After(Call(i))
Env == Allowed(Call(S("env"))) /\ After(Call(S("env")))
Export == \E i \in ExportInputs : Allowed(Call(i)) /\ After(Call(i))
History == Allowed(Call(S("history"))) /\ After(Call(S("history")))
EmptyInput == Allowed(Call(Empty)) /\ After(Call(Empty))
Unknown == \E i \in UnknownInputs : Allowed(Call(i)) /\ After(Call(i))

Next ==
  \/ Help \/ Clear \/ Echo \/ Date \/ Whoami \/ Pwd \/ Ls \/ Cd \/ Cat
  \/ Mkdir \/ Touch \/ Rm \/ Uname \/ Env \/ Export \/ History
  \/ EmptyInput \/ Unknown

Spec == Init /\ [][Next]_vars

(* ------------------------ notions the claims use ------------------------ *)

AllInputs ==
  {S("help"), S("clear"), S("date"), S("whoami"), S("pwd"), S("env"), S("history"), Empty}
  \cup EchoInputs \cup LsInputs \cup CdInputs \cup CatInputs \cup MkdirInputs
  \cup TouchInputs \cup RmInputs \cup UnameInputs \cup ExportInputs \cup UnknownInputs

\* the emulator after a call that returned r
StateOf(r) == [fs |-> r.fs, currentPath |-> r.currentPath, env |-> r.env]

Ok == RetStr(Empty)

\* a Directory of the data model: type "directory" and a children mapping
IsDirectoryNode(f, p) ==
  /\ p \in DOMAIN f /\ f[p].t = "obj"
  /\ HasOwn(f, p, kType) /\ f[Append(p, kType)] = StrV(S("directory"))
  /\ HasOwn(f, p, kChildren) /\ f[Append(p, kChildren)].t = "obj"

\* a File of the data model: type "file"
IsFileNode(f, p) ==
  /\ p \in DOMAIN f /\ f[p].t = "obj"
  /\ HasOwn(f, p, kType) /\ f[Append(p, kType)] = StrV(S("file"))

RECURSIVE WalkDirs(_, _, _)
\* follows path from the children mapping c through Directory nodes only
WalkDirs(f, c, path) ==
  IF path = <<>> THEN [ok |-> TRUE, c |-> c]
  ELSE LET n == Append(c, Head(path))
       IN IF IsDirectoryNode(f, n) THEN WalkDirs(f, Append(n, kChildren), Tail(path))
          ELSE [ok |-> FALSE, c |-> <<>>]

ResolvesToDirectory(f, path) == WalkDirs(f, <<>>, path).ok

\* what a path names: a Directory, a File, or nothing
TargetKind(f, path) ==
  IF path = <<>> THEN "directory"
  ELSE LET parent == WalkDirs(f, <<>>, SubSeq(path, 1, Len(path) - 1))
           n == Append(parent.c, path[Len(path)])
       IN IF ~parent.ok THEN "missing"
          ELSE IF IsDirectoryNode(f, n) THEN "directory"
          ELSE IF IsFileNode(f, n) THEN "file"
          ELSE "missing"

\* the node the working directory resolves to has an own entry x of type
\* "directory"
HasDirectoryChild(f, cp, x) ==
  LET node == getNode(f, cp)
  IN /\ node.k = "obj"
     /\ HasOwn(f, node.p, x)
     /\ f[Append(node.p, x)].t = "obj"
     /\ HasOwn(f, Append(node.p, x), kType)
     /\ f[Append(node.p, x) \o <<kType>>] = StrV(S("directory"))

\* the outputs that report an error
ErrorHeads ==
  { "cd: ", "cat: ", "cat: missing file operand", "mkdir: missing operand",
    "mkdir: cannot create directory", "mkdir: cannot create directory '",
    "touch: missing file operand", "touch: cannot create file", "rm: missing operand",
    "rm: cannot remove '", "export: invalid syntax", "bash: ",
    "ls: cannot access directory" }

IsError(ret) == ret.k = "str" /\ ret.s # Empty /\ Head(ret.s) \in ErrorHeads

\* name is one of the entries of an ls output (entries are joined by two spaces)
Lists(out, name) ==
  \E i \in 1..Len(out) :
    /\ i + Len(name) - 1 <= Len(out)
    /\ SubSeq(out, i, i + Len(name) - 1) = name
    /\ (i = 1 \/ out[i - 1] = " ")
    /\ (i + Len(name) - 1 = Len(out) \/ out[i + Len(name)] = " ")

AbsSegments(p) == FilterNonEmpty(Split(p, "/"))

(* -------------------------------- claims -------------------------------- *)

\* C1: after any sequence of commands the working directory resolves from
\* the root through existing Directory nodes (it never names a File or a path
\* that does not exist).
C1_WorkingDirectoryExists == ResolvesToDirectory(fs, currentPath)

\* C2: every call that returns an error result leaves the tree, the working
\* directory and the environment exactly as they were.
C2_ErrorsLeaveStateUnchanged ==
  \A i \in AllInputs :
    LET r == Call(i)
    IN IsError(r.ret) => r.fs = fs /\ r.currentPath = currentPath /\ r.env = env

\* a directory d made earlier is in the current directory, and a further
\* mkdir d is answered with the "File exists" error
C2_Witness ==
  /\ made > 0
  /\ HasDirectoryChild(fs, currentPath, tD)
  /\ Call(Cmd("mkdir", tD)).ret
       = RetStr(<<"mkdir: cannot create directory '", "d", "': File exists">>)

\* C3: for every input and in every reachable state executeCommand returns a
\* string and raises no fault.
C3_AlwaysReturnsString ==
  \A i \in AllInputs : \A now \in Dates : executeCommand(State, i, now).ret.k = "str"

\* C4: cd with an absolute path whose segments name an existing chain of
\* Directory nodes returns "" and sets the working directory to those segments.
C4_AbsoluteCdSucceeds ==
  \A p \in AbsPaths :
    ResolvesToDirectory(fs, AbsSegments(p)) =>
      /\ Call(Cmd("cd", p)).ret = Ok
      /\ Call(Cmd("cd", p)).currentPath = AbsSegments(p)

C6_CdUpPopsOneSegment ==
  LET r == Call(Cmd("cd", S("..")))
  IN /\ r.ret = Ok
     /\ r.currentPath = IF Len(currentPath) >= 1
                        THEN SubSeq(currentPath, 1, Len(currentPath) - 1)
                        ELSE currentPath

\* C7: for every working directory w (the root included) and every Directory
\* child x of w, cd x followed by cd .. leaves the working directory equal to w.
C7_CdChildThenUp ==
  \A x \in Names :
    HasDirectoryChild(fs, currentPath, x) =>
      executeCommand(StateOf(Call(Cmd("cd", x))), Cmd("cd", S("..")), Empty).currentPath
        = currentPath

\* C8: from every state cd / returns "" and sets the working directory to the
\* root, and pwd and getCurrentPath then give exactly "/".
C8_CdRootThenPwd ==
  LET r == Call(Cmd("cd", S("/")))
  IN /\ r.ret = Ok
     /\ r.currentPath = <<>>
     /\ r.fs = fs /\ r.env = env
     /\ executeCommand(StateOf(r), S("pwd"), Empty).ret = RetStr(S("/"))
     /\ getCurrentPath(r.currentPath) = S("/")

\* the emulator stands at the root (only cd / leads there) of a tree that
\* commands have changed, and pwd prints "/"
C8_Witness ==
  /\ currentPath = <<>>
  /\ fs # virtualFS
  /\ Call(S("pwd")).ret = RetStr(S("/"))

\* C9: cd with a path argument reports "No such directory" when the target
\* does not exist and "Not a directory" when the target is a File, and leaves
\* the working directory unchanged in both cases.
C9_CdErrorKinds ==
  \A a \in Names \cup AbsPaths :
    LET r == Call(Cmd("cd", a))
        path == IF Head(a) = "/" THEN AbsSegments(a) ELSE Append(currentPath, a)
        kind == TargetKind(fs, path)
    IN /\ kind = "missing" =>
            r.ret = RetStr(S("cd: ") \o a \o S(": No such directory"))
            /\ r.currentPath = currentPath
       /\ kind = "file" =>
            r.ret = RetStr(S("cd: ") \o a \o S(": Not a directory"))
            /\ r.currentPath = currentPath

\* C10: for every name d that is not a child of the current directory, mkdir d
\* returns "" and a following ls lists d; a second mkdir d returns the "File
\* exists" error and leaves the tree unchanged.
C10_MkdirThenLsThenMkdir ==
  \A d \in MkdirNames :
    LET cur == WalkDirs(fs, <<>>, currentPath)
        r1 == Call(Cmd("mkdir", d))
        r2 == executeCommand(StateOf(r1), Cmd("mkdir", d), Empty)
    IN ~(cur.ok /\ HasOwn(fs, cur.c, d)) =>
         /\ r1.ret = Ok
         /\ Lists(executeCommand(StateOf(r1), S("ls"), Empty).ret.s, d)
         /\ r2.ret = RetStr(S("mkdir: cannot create directory '") \o d \o S("': File exists"))
         /\ r2.fs = r1.fs

\* C11: for every file name f, touch f returns "" (never an error) on the
\* first and on every later call; it creates an empty File f only when the
\* working directory has no child named f, and leaves an existing child of
\* either kind untouched.
C11_TouchIsIdempotent ==
  \A f \in Names :
    LET node == getNode(fs, currentPath)
        had == node.k = "obj" /\ HasOwn(fs, node.p, f)
        r1 == Call(Cmd("touch", f))
        r2 == executeCommand(StateOf(r1), Cmd("touch", f), Empty)
    IN /\ r1.ret = Ok
       /\ r2.ret = Ok
       /\ r2.fs = r1.fs
       /\ had => r1.fs = fs
       /\ r1.fs # fs =>
            /\ ~had
            /\ r1.fs = Assign(fs, node.p, f, FileNode(Append(node.p, f), f, Empty))

\* C12: for every name n, after rm n a following ls in the same working
\* directory does not list n and a following cat n returns the "No such file"
\* error.
C12_RmThenLsAndCat ==
  \A n \in Names :
    LET s == StateOf(Call(Cmd("rm", n)))
    IN /\ ~Lists(executeCommand(s, S("ls"), Empty).ret.s, n)
       /\ executeCommand(s, Cmd("cat", n), Empty).ret
            = RetStr(S("cat: ") \o n \o S(": No such file"))

\* rm Documents has removed the seeded directory from the home directory,
\* where the emulator stands: ls no longer lists it, and the file readme.txt
\* that cat still prints is removed by a further rm
C12_Witness ==
  /\ currentPath = initialPath
  /\ ResolvesToDirectory(fs, currentPath)
  /\ ~HasOwn(fs, pUserKids, tDocuments)
  /\ ~Lists(Call(S("ls")).ret.s, tDocuments)
  /\ Lists(Call(S("ls")).ret.s, tReadme)
  /\ Call(Cmd("cat", tReadme)).ret # RetStr(<<"cat: ", "readme.txt", ": No such file">>)
  /\ Call(Cmd("rm", tReadme)).ret = Ok

\* the names that occur as children, in lexicographic (code unit) order
LexOrder ==
  << S("Documents"), S("Downloads"), S("Pictures"), S("Projects"), S("Videos"),
     S("constructor"), S("content"), S("d"), S("home"), S("lindroid-user"),
     S("readme.txt"), S("script.sh") >>

LexRank(name) == CHOOSE i \in 1..Len(LexOrder) : LexOrder[i] = name

RECURSIVE SortedNames(_)
\* the names of a set in lexicographic order
SortedNames(names) ==
  IF names = {} THEN <<>>
  ELSE LET least == CHOOSE n \in names : \A m \in names : LexRank(n) <= LexRank(m)
       IN <<least>> \o SortedNames(names \ {least})

\* the own entries of the children mapping c
ChildNames(f, c) == {f[c].ks[i] : i \in 1..Len(f[c].ks)}

\* C13: in every reachable state ls returns the names of all children of the
\* current directory, every Directory name before every File name and each of
\* the two groups in lexicographic order whatever the order of creation, and
\* returns "" when the directory has no children.
C13_LsSortedDirectoriesFirst ==
  LET cur == WalkDirs(fs, <<>>, currentPath)
      dirs == {n \in ChildNames(fs, cur.c) : IsDirectoryNode(fs, Append(cur.c, n))}
      files == {n \in ChildNames(fs, cur.c) : IsFileNode(fs, Append(cur.c, n))}
  IN cur.ok =>
       Call(S("ls")).ret = RetStr(Join(SortedNames(dirs) \o SortedNames(files), <<" ", " ">>))

\* keys and values of export tokens: a new key and a seeded one; a plain
\* value, a quoted one, one with "=" in it, one with a quote inside
ExportKeys == {S("A"), S("USER")}
ExportValues ==
  { S("b"), <<"\"", "b", "\"">>, <<"'", "b", "'">>, <<"b", "=", "c">>, <<"b", "\"", "c">> }

IsQuote(a) == a \in {"'", "\""}

\* v without the quote characters that surround it
Unquote(v) ==
  LET from == IF Len(v) > 0 /\ IsQuote(v[1]) THEN 2 ELSE 1
      to == IF Len(v) >= from /\ IsQuote(v[Len(v)]) THEN Len(v) - 1 ELSE Len(v)
  IN SubSeq(v, from, to)

\* the lines of an env output
Lines(out) == {Split(out, "\n")[i] : i \in 1..Len(Split(out, "\n"))}

\* C14: for every non-empty KEY and non-empty VALUE given as the single token
\* KEY=VALUE, export returns "" and a following env contains the line
\* KEY=VALUE with the surrounding quotes of VALUE stripped and the rest of
\* VALUE kept whole, also when VALUE contains "=" or KEY already existed.
C14_ExportThenEnv ==
  \A key \in ExportKeys : \A value \in ExportValues :
    LET r == Call(Cmd("export", key \o S("=") \o value))
    IN /\ r.ret = Ok
       /\ (key \o S("=") \o Unquote(value))
            \in Lines(executeCommand(StateOf(r), S("env"), Empty).ret.s)

\* export tokens that are malformed: no "=", an empty key, an empty value, a
\* value that is empty once its quotes are stripped
MalformedTokens ==
  { S("A"), <<"=", "b">>, <<"A", "=">>, S("="),
    <<"A", "=", "\"", "\"">>, <<"A", "=", "'", "'">> }

\* export tokens of every shape
ExportTokens ==
  MalformedTokens \cup {key \o S("=") \o value : key \in ExportKeys, value \in ExportValues}

\* C15: export with a malformed token (no "=", an empty key, an empty value,
\* a value that is empty once its quotes are stripped) returns the "invalid
\* syntax" error and leaves the environment unchanged; no export call stores
\* a variable with an empty name or an empty value.
C15_MalformedExportRejected ==
  /\ \A tok \in MalformedTokens :
       LET r == Call(Cmd("export", tok))
       IN r.ret = RetStr(S("export: invalid syntax")) /\ r.env = env
  /\ \A tok \in ExportTokens :
       LET r == Call(Cmd("export", tok))
       IN \A i \in 1..Len(r.env) : r.env[i].key # Empty /\ r.env[i].value # Empty

\* the command word of an input, as executeCommand reads it
CommandOf(input) == toLowerCase(SplitWs(Trim(input))[1])

\* C16: clear returns exactly "__CLEAR__" and changes no state, and no other
\* command (echo, whoami, cat, env, ...) with any arguments and in any
\* reachable state returns that same value.
C16_ClearSentinelIsDistinct ==
  /\ Call(S("clear")).ret = RetStr(S("__CLEAR__"))
  /\ StateOf(Call(S("clear"))) = State
  /\ \A i \in AllInputs : \A now \in Dates :
       CommandOf(i) # S("clear") =>
         executeCommand(State, i, now).ret # RetStr(S("__CLEAR__"))

(* ----------------------- instances and sessions ------------------------- *)

\* the longest session replayed
MaxSession == 3

\* new TerminalEmulator() while the module's tree is f: the fields are set by
\* their initialisers, the tree is the one object of the module
TerminalEmulator(f) == [fs |-> f, currentPath |-> initialPath, env |-> initialEnv]

RECURSIVE Replay(_, _)
\* history.forEach(entry => emulator.executeCommand(entry.command))
Replay(st, commands) ==
  IF commands = <<>> THEN st
  ELSE Replay(StateOf(executeCommand(st, Head(commands), Empty)), Tail(commands))

\* the commands of the sessions
SessionInputs ==
  { Cmd("cd", tDocuments), Cmd("cd", S("..")), Cmd("rm", tDocuments),
    Cmd("mkdir", tD), Cmd("cd", tD) }

Sessions ==
  UNION {[1..n -> SessionInputs] : n \in 0..MaxSession}

\* C17: for every sequence of commands submitted to an emulator instance,
\* replaying the same sequence in the same order through a fresh instance
\* reaches the same working directory (getCurrentPath) as the original
\* instance reached.
C17_ReplayReachesSameDirectory ==
  \A h \in Sessions :
    LET original == Replay(TerminalEmulator(fs), h)
        replayed == Replay(TerminalEmulator(original.fs), h)
    IN getCurrentPath(replayed.currentPath) = getCurrentPath(original.currentPath)

\* the instance inst once the module's tree is f (getNode starts every walk
\* at the module's tree)
Sees(inst, f) == [fs |-> f, currentPath |-> inst.currentPath, env |-> inst.env]

\* C18: the side effects of executeCommand on one instance (tree mutation,
\* working-directory change, environment mutation) are visible only through
\* later calls on that same instance: no command run on an instance A changes
\* the output or the state of a later command on a different instance B.
C18_InstancesAreIsolated ==
  \A a \in AllInputs : \A b \in AllInputs :
    LET B == TerminalEmulator(fs)
        alone == executeCommand(B, b, Empty)
        afterA == executeCommand(Sees(B, Call(a).fs), b, Empty)
    IN /\ afterA.ret = alone.ret
       /\ afterA.currentPath = alone.currentPath
       /\ afterA.env = alone.env

\* C19: every newly constructed emulator starts in /home/lindroid-user (pwd
\* and getCurrentPath return "/home/lindroid-user") with an environment of
\* exactly USER=lindroid-user, HOME=/home/lindroid-user, PATH and SHELL with
\* their seed values, whatever was done on earlier instances.
C19_FreshInstanceDefaults ==
  LET e == TerminalEmulator(fs)
      home == <<"/", "home", "/", "lindroid-user">>
  IN /\ executeCommand(e, S("pwd"), Empty).ret = RetStr(home)
     /\ getCurrentPath(e.currentPath) = home
     /\ executeCommand(e, S("env"), Empty).ret
          = RetStr(<<"USER", "=", "lindroid-user", "\n">>
                   \o <<"HOME", "=">> \o home \o <<"\n">>
                   \o <<"PATH", "=", "/usr/local/bin:/usr/bin:/bin", "\n">>
                   \o <<"SHELL", "=", "/bin/bash">>)
     /\ executeCommand(e, S("whoami"), Empty).ret = RetStr(S("lindroid-user"))

\* an earlier instance has left its home directory, exported a variable and
\* removed the home directory from the tree
C19_Witness ==
  /\ currentPath # initialPath
  /\ env # initialEnv
  /\ ~ResolvesToDirectory(fs, initialPath)
  /\ Call(S("pwd")).ret # RetStr(<<"/", "home", "/", "lindroid-user">>)

\* the commands that only report
ReadOnlyCommands ==
  { S("help"), S("clear"), S("echo"), S("date"), S("whoami"), S("pwd"), S("ls"),
    S("cat"), S("uname"), S("env"), S("history") }

\* the commands that may change state
MutatingCommands == {S("cd"), S("mkdir"), S("touch"), S("rm"), S("export")}

\* every reporting command with an argument it does not expect
ArgumentInputs ==
  {Cmd(c[1], a) : c \in ReadOnlyCommands, a \in {tDocuments, <<"A", "=", "b">>}}

\* C20: help, clear, echo, date, whoami, pwd, ls, cat, uname, env and history,
\* with any arguments and in any reachable state, leave the tree, the working
\* directory and the environment unchanged; only cd, mkdir, touch, rm and
\* export can change state.
C20_ReadOnlyCommandsChangeNothing ==
  /\ \A i \in AllInputs \cup ArgumentInputs :
       /\ CommandOf(i) \in ReadOnlyCommands => StateOf(Call(i)) = State
       /\ StateOf(Call(i)) # State => CommandOf(i) \in MutatingCommands
  /\ \A now \in Dates : StateOf(executeCommand(State, S("date"), now)) = State

\* the emulator stands in a directory with children, in a tree and with an
\* environment that commands have changed; ls and cat report and cd Documents
\* would move
C20_Witness ==
  /\ fs # virtualFS
  /\ env # initialEnv
  /\ ResolvesToDirectory(fs, currentPath)
  /\ Lists(Call(S("ls")).ret.s, tDocuments)
  /\ Call(Cmd("cat", tReadme)).ret # RetStr(<<"cat: ", "readme.txt", ": No such file">>)
  /\ StateOf(Call(Cmd("cd", tDocuments))) # State

\* the command word in capitals
UpperAtom(a) ==
  CASE a = "cd" -> "CD"
    [] a = "echo" -> "ECHO"
    [] a = "pwd" -> "PWD"
    [] a = "ls" -> "LS"
    [] a = "help" -> "HELP"
    [] a = "clear" -> "CLEAR"
    [] a = "date" -> "DATE"
    [] a = "whoami" -> "WHOAMI"
    [] a = "cat" -> "CAT"
    [] a = "mkdir" -> "MKDIR"
    [] a = "touch" -> "TOUCH"
    [] a = "rm" -> "RM"
    [] a = "uname" -> "UNAME"
    [] a = "env" -> "ENV"
    [] a = "export" -> "EXPORT"
    [] a = "history" -> "HISTORY"
    [] a = "unknowncommand" -> "UNKNOWNCOMMAND"
    [] OTHER -> a

\* input with blanks before and after
Pad(input) == <<" ">> \o input \o <<" ", " ">>

RECURSIVE Widen(_)
\* input with every blank doubled
Widen(input) ==
  IF input = <<>> THEN <<>>
  ELSE IF Head(input) = " " THEN <<" ", " ">> \o Widen(Tail(input))
  ELSE <<Head(input)>> \o Widen(Tail(input))

\* input with its command word in capitals
Upper(input) ==
  IF input = <<>> THEN input ELSE <<UpperAtom(Head(input))>> \o Tail(input)

\* inputs with the same normalised token sequence as input
Variants(input) ==
  {Pad(input), Widen(input), Upper(input), Pad(Widen(Upper(input)))}

\* C21: executeCommand depends only on the normalised token sequence of its
\* input: inputs that differ only in leading or trailing whitespace, in the
\* length of the whitespace runs between tokens or in the letter case of the
\* command name give the same output and the same state change (the case of
\* the arguments is preserved), and an input that is empty after trimming
\* returns "" with no state change.
C21_TokenisationNormalises ==
  /\ \A i \in AllInputs : \A v \in Variants(i) : Call(v) = Call(i)
  /\ \A blank \in {Empty, <<" ">>, <<" ", " ", " ">>} : Call(blank) = Same(State, Ok)
  /\ Call(<<"ECHO", " ", " ", "ECHO", " ", "CD">>).ret = RetStr(<<"ECHO", " ", "CD">>)

\* commands have changed the tree and the emulator stands in its home
\* directory, where a padded, widened and capitalised cd Documents moves it
C21_Witness ==
  /\ made > 0
  /\ currentPath = initialPath
  /\ Call(<<" ", "CD", " ", " ", "Documents", " ", " ">>).ret = Ok
  /\ Call(<<" ", "CD", " ", " ", "Documents", " ", " ">>).currentPath
       = <<tHome, tUser, tDocuments>>

\* what cat gives for the content property of the file node at p
ContentOf(f, p) ==
  IF ~HasOwn(f, p, kContent) THEN Ok
  ELSE IF f[Append(p, kContent)].t = "obj" THEN RetObj
  ELSE RetStr(f[Append(p, kContent)].s)

OwnKeys(f, p) == {f[p].ks[i] : i \in 1..Len(f[p].ks)}

\* the object at p is a children mapping: the root, or the children property
\* of a node
IsChildrenMap(f, p) == p = <<>> \/ p[Len(p)] = kChildren

\* the node at p is a File with content and no children mapping, or a
\* Directory with a children mapping and no content, and carries the name it
\* is stored under
WellFormedNode(f, p) ==
  /\ f[Append(p, kName)] = StrV(p[Len(p)])
  /\ \/ /\ OwnKeys(f, p) = {kName, kType, kContent}
        /\ f[Append(p, kType)] = StrV(S("file"))
        /\ f[Append(p, kContent)].t = "str"
     \/ /\ OwnKeys(f, p) = {kName, kType, kChildren}
        /\ f[Append(p, kType)] = StrV(S("directory"))
        /\ f[Append(p, kChildren)].t = "obj"

\* C23: in every reachable state of the tree every node is either a File
\* (content, no children mapping) or a Directory (children mapping, no
\* content), names are unique among siblings and each child is stored under
\* a key equal to its own name; no sequence of shell commands adds child
\* entries to a File node or content to a Directory node.
C23_TreeIsWellFormed ==
  \A p \in DOMAIN fs :
    /\ fs[p].t = "obj" =>
         /\ \A i, j \in 1..Len(fs[p].ks) : fs[p].ks[i] = fs[p].ks[j] => i = j
         /\ IsChildrenMap(fs, p)
            \/ (IsChildrenMap(fs, SubSeq(p, 1, Len(p) - 1)) /\ WellFormedNode(fs, p))
    /\ IsChildrenMap(fs, p) => fs[p].t = "obj"

\* values exported to HOME
HomeValues == {<<"/", "home">>, <<"/", "home", "/", "lindroid-user", "/", "Documents">>, S("x")}

\* C24: cd with no argument returns "" and sets the working directory to the
\* home default ["home", "lindroid-user"] from any state, whatever the value
\* of the HOME environment variable.
C24_CdHomeIgnoresEnv ==
  /\ Call(S("cd")) = Res(fs, <<tHome, tUser>>, env, Ok)
  /\ \A h \in HomeValues :
       LET s == StateOf(Call(Cmd("export", <<"HOME", "=">> \o h)))
       IN /\ executeCommand(s, S("env"), Empty).ret # Call(S("env")).ret
          /\ executeCommand(s, S("cd"), Empty) = Res(s.fs, <<tHome, tUser>>, s.env, Ok)

\* the emulator has left its home directory in a changed tree, and with HOME
\* set to /home cd still leads to /home/lindroid-user
C24_Witness ==
  /\ currentPath = <<tHome, tUser, tDocuments>>
  /\ env # initialEnv
  /\ fs # virtualFS
  /\ Call(Cmd("export", <<"HOME", "=", "/", "home">>)).ret = Ok
  /\ Call(S("cd")).currentPath = <<tHome, tUser>>

\* the tree g is the tree f without the entry n of the children mapping c and
\* without everything below that entry, and is f everywhere else
RemovedExactly(f, g, c, n) ==
  /\ DOMAIN g = {q \in DOMAIN f : ~IsPrefix(Append(c, n), q)}
  /\ \A q \in DOMAIN g : q # c => g[q] = f[q]
  /\ g[c] = [f[c] EXCEPT !.ks = SelectSeq(@, LAMBDA k : k # n)]

\* C25: rm n, where n is an existing child of the current directory (a File,
\* an empty or a non-empty Directory), returns "" and removes exactly that
\* child with its whole subtree; every other node, the working directory and
\* the environment are unchanged. With no argument or with n not present it
\* returns an error and removes nothing.
C25_RmRemovesExactlyTheChild ==
  /\ Call(S("rm")) = Same(State, RetStr(S("rm: missing operand")))
  /\ \A n \in Names :
       LET cur == WalkDirs(fs, <<>>, currentPath)
           r == Call(Cmd("rm", n))
       IN /\ r.currentPath = currentPath /\ r.env = env
          /\ IF cur.ok /\ HasOwn(fs, cur.c, n)
             THEN r.ret = Ok /\ RemovedExactly(fs, r.fs, cur.c, n)
             ELSE IsError(r.ret) /\ r.fs = fs

\* the tree g is the tree f with the one new entry n in the children mapping
\* c, holding the node new, and is f everywhere else
AddedExactly(f, g, c, n, new) ==
  /\ ~HasOwn(f, c, n)
  /\ DOMAIN g = DOMAIN f \cup DOMAIN new
  /\ DOMAIN f \cap DOMAIN new = {}
  /\ \A q \in DOMAIN new : g[q] = new[q]
  /\ \A q \in DOMAIN f : q # c => g[q] = f[q]
  /\ g[c] = [f[c] EXCEPT !.ks = Append(@, n)]

\* C26: a successful mkdir n or a node-creating touch n adds exactly one new
\* empty node named n (a Directory with no children, a File with empty
\* content) to the children of the current directory and changes nothing
\* else: all earlier nodes and file contents, the working directory and the
\* environment are unchanged.
C26_CreationAddsOneNode ==
  \A n \in Names :
    LET cur == WalkDirs(fs, <<>>, currentPath)
        m == Call(Cmd("mkdir", n))
        t == Call(Cmd("touch", n))
    IN /\ m.currentPath = currentPath /\ m.env = env
       /\ t.currentPath = currentPath /\ t.env = env
       /\ (m.ret = Ok \/ m.fs # fs) =>
            /\ cur.ok
            /\ AddedExactly(fs, m.fs, cur.c, n, DirNode(Append(cur.c, n), n, <<>>))
       /\ t.fs # fs =>
            /\ cur.ok
            /\ AddedExactly(fs, t.fs, cur.c, n, FileNode(Append(cur.c, n), n, Empty))

(* ----------------------------- file manager ----------------------------- *)

Thrown == [k |-> "throw", p |-> <<>>, s |-> Empty]

RECURSIVE fmParentFrom(_, _, _)
\* for (segment of currentPath) parent = parent[segment].children ||
\* parent[segment]: reading .children of a missing entry raises a TypeError
fmParentFrom(f, cur, path) ==
  IF path = <<>> THEN cur
  ELSE LET x == Get(f, cur, Head(path))
       IN IF x.k \in {"undef", "null"} THEN Thrown
          ELSE LET ch == Get(f, x, kChildren)
               IN fmParentFrom(f, IF Truthy(ch) THEN ch ELSE x, Tail(path))

fmParent(f, path) == fmParentFrom(f, Ref(<<>>), path)

RECURSIVE fmCurrentFrom(_, _, _)
\* the walk of loadDirectory, which skips a segment that is missing
fmCurrentFrom(f, cur, path) ==
  IF path = <<>> THEN cur
  ELSE LET x == Get(f, cur, Head(path))
           ch == Get(f, x, kChildren)
       IN IF Truthy(x)
          THEN fmCurrentFrom(f, IF Truthy(ch) THEN ch ELSE x, Tail(path))
          ELSE fmCurrentFrom(f, cur, Tail(path))

\* the items loadDirectory lists: the own entries that are objects with a
\* type, each with its name and its node
loadDirectory(f, path) ==
  LET current == fmCurrentFrom(f, Ref(<<>>), path)
  IN IF current.k # "obj" THEN {}
     ELSE { [name |-> NameText(f, Ref(Append(current.p, k))), node |-> Append(current.p, k)] :
              k \in { k \in {f[current.p].ks[i] : i \in 1..Len(f[current.p].ks)} :
                        /\ f[Append(current.p, k)].t = "obj"
                        /\ HasOwn(f, Append(current.p, k), kType) } }

\* { ...item.node, name: newName } stored at the path to: the properties of
\* the node with the name replaced, and below them what they refer to
Renamed(f, from, to, newName) ==
  LET moved == {q \in DOMAIN f : IsPrefix(from, q)}
      At(q) == to \o SubSeq(q, Len(from) + 1, Len(q))
  IN [r \in {At(q) : q \in moved} \cup {Append(to, kName)} |->
        IF r = Append(to, kName) THEN StrV(newName)
        ELSE LET q == CHOOSE q \in moved : At(q) = r
             IN IF q = from /\ ~HasOwn(f, from, kName)
                THEN [f[q] EXCEPT !.ks = Append(@, kName)]
                ELSE f[q]]

\* the Rename button of the prompt, pressed with newName for item
handleRename(f, path, item, newName) ==
  LET name == Trim(newName)
      parent == fmParent(f, path)
  IN IF name = Empty THEN [fs |-> f, ret |-> "ignored"]
     ELSE IF parent.k = "throw" THEN [fs |-> f, ret |-> "throw"]
     ELSE IF Truthy(Get(f, parent, name)) THEN [fs |-> f, ret |-> "exists"]
     ELSE IF parent.k = "str" THEN [fs |-> f, ret |-> "throw"]
     ELSE IF parent.k # "obj" THEN [fs |-> f, ret |-> "renamed"]
     ELSE [fs |-> Delete(Assign(f, parent.p, name,
                                Renamed(f, item.node, Append(parent.p, name), name)),
                         parent.p, item.name),
           ret |-> "renamed"]

\* the Delete button of the confirmation, pressed for item
handleDelete(f, path, item) ==
  LET parent == fmParent(f, path)
  IN IF parent.k = "throw" THEN [fs |-> f, ret |-> "throw"]
     ELSE IF parent.k # "obj" THEN [fs |-> f, ret |-> "deleted"]
     ELSE [fs |-> Delete(f, parent.p, item.name), ret |-> "deleted"]

\* directories the File Manager may show
FmPaths == {<<>>, <<tHome>>, <<tHome, tUser>>, <<tHome, tUser, tDocuments>>}

\* names typed into the rename prompt: fresh ones, taken ones, one that every
\* plain object inherits
NewNames == {tD, S("e"), tDocuments, tReadme, tUser, tCtor}

\* below the entry b of the children mapping c the tree g holds what the tree
\* f holds below the entry a, with the name replaced by b
MovedExactly(f, g, c, a, b) ==
  LET from == Append(c, a)
      to == Append(c, b)
      At(q) == to \o SubSeq(q, Len(from) + 1, Len(q))
      moved == {q \in DOMAIN f : IsPrefix(from, q)}
  IN /\ {q \in DOMAIN g : IsPrefix(to, q)} = {At(q) : q \in moved}
     /\ \A q \in moved :
          g[At(q)] = IF q = Append(from, kName) THEN StrV(b) ELSE f[q]

\* C27: the File Manager rename of a node from name a to name b in a
\* directory is atomic: if b is already taken (b equal to a included) it
\* fails and the directory is unchanged; otherwise b is afterwards present
\* with the node's former content or subtree and a is absent. In no resulting
\* state are both names present for the one node, and in none is the node
\* present under neither name.
C27_RenameIsAtomic ==
  \A path \in FmPaths :
    ResolvesToDirectory(fs, path) =>
      \A item \in loadDirectory(fs, path) : \A b \in NewNames :
        LET c == WalkDirs(fs, <<>>, path).c
            a == item.name
            r == handleRename(fs, path, item, b)
        IN IF HasOwn(fs, c, b)
           THEN r.ret = "exists" /\ r.fs = fs
           ELSE /\ r.ret = "renamed"
                /\ HasOwn(r.fs, c, b) /\ ~HasOwn(r.fs, c, a)
                /\ MovedExactly(fs, r.fs, c, a, b)
                /\ RemovedExactly(fs, Delete(r.fs, c, b), c, a)

(* ---------------------------- terminal screen --------------------------- *)

\* the screen when it is mounted: a new emulator, no history, Termux mode
\* off, the prompt at its initial text
TerminalScreen(f) ==
  [ emulator |-> TerminalEmulator(f),
    history |-> <<>>,
    termuxMode |-> FALSE,
    promptPath |-> <<"/", "home", "/", "lindroid-user">> ]

\* TerminalScreen.executeCommand(cmd); installed is termuxStatus.installed
submitCommand(scr, cmd, installed) ==
  LET r == executeCommand(scr.emulator, cmd, Empty)
  IN IF Trim(cmd) = Empty THEN scr
     ELSE IF scr.termuxMode /\ installed
     THEN [scr EXCEPT !.history = Append(@, cmd)]
     ELSE IF r.ret = RetStr(S("__CLEAR__"))
     THEN [scr EXCEPT !.emulator = StateOf(r),
                      !.history = <<>>,
                      !.promptPath = getCurrentPath(r.currentPath)]
     ELSE [scr EXCEPT !.emulator = StateOf(r),
                      !.history = Append(@, cmd),
                      !.promptPath = IF scr.termuxMode THEN @
                                     ELSE getCurrentPath(r.currentPath)]

\* the switch: the mode changes and a notice, an entry with the command "",
\* goes into the history
handleTermuxModeToggle(scr, value, installed) ==
  IF value /\ ~installed THEN scr
  ELSE [scr EXCEPT !.termuxMode = value, !.history = Append(@, Empty)]

\* the history saveSession stores with the session
saveSession(scr) == scr.history

\* the screen mounted with a session id while the module's tree is f:
\* loadSession sets the history and replays its commands
loadSession(f, saved) ==
  LET replayed == Replay(TerminalEmulator(f), saved)
  IN [ emulator |-> replayed,
       history |-> saved,
       termuxMode |-> FALSE,
       promptPath |-> getCurrentPath(replayed.currentPath) ]

\* what the user does on the screen: submit a command, switch Termux mode
Submit(cmd) == [kind |-> "submit", cmd |-> cmd, value |-> FALSE]
Toggle(value) == [kind |-> "toggle", cmd |-> Empty, value |-> value]

UserActions ==
  { Submit(Cmd("cd", tDocuments)), Submit(Cmd("cd", S(".."))), Submit(S("clear")),
    Toggle(TRUE), Toggle(FALSE) }

UserSessions == UNION {[1..n -> UserActions] : n \in 0..MaxSession}

RECURSIVE RunScreen(_, _)
\* the screen after the user's actions, on a device with Termux installed
RunScreen(scr, actions) ==
  IF actions = <<>> THEN scr
  ELSE LET a == Head(actions)
       IN RunScreen(IF a.kind = "submit" THEN submitCommand(scr, a.cmd, TRUE)
                    ELSE handleTermuxModeToggle(scr, a.value, TRUE),
                    Tail(actions))

\* C28: session restore reproduces the saved session's shell state: after
\* loadSession has replayed the commands of the saved history through the new
\* emulator, the prompt path equals the working directory the emulator had
\* when the session was saved, for every sequence of user actions before
\* saving, clear and commands entered in Termux mode included.
C28_RestoreReproducesSession ==
  \A actions \in UserSessions :
    LET scr == RunScreen(TerminalScreen(fs), actions)
        restored == loadSession(scr.emulator.fs, saveSession(scr))
    IN restored.promptPath = getCurrentPath(scr.emulator.currentPath)

\* no segment of cp is empty or contains "/", and the pwd string of cp splits
\* back on "/" into exactly the segments of cp
SplitsBack(cp) ==
  /\ \A i \in 1..Len(cp) : cp[i] # Empty /\ \A j \in 1..Len(cp[i]) : cp[i][j] # "/"
  /\ FilterNonEmpty(Split(getCurrentPath(cp), "/")) = cp

\* working directories a state can lead to
PwdPaths == {<<>>, <<tHome>>, <<tHome, tUser>>, <<tHome, tUser, tDocuments>>,
             <<tHome, tUser, tDocuments, tD>>, <<tHome, tUser, tD>>}

\* C29: in every reachable state no working-directory segment is empty or
\* contains "/", so the string of pwd / getCurrentPath splits back on "/"
\* into exactly the working-directory segments, and two different working
\* directories never give the same pwd string; this also after mkdir and cd
\* of any whitespace-free token such as a/b.
C29_PwdSplitsBack ==
  /\ SplitsBack(currentPath)
  /\ \A n \in Names :
       LET s == Replay(State, <<Cmd("mkdir", n), Cmd("cd", n)>>)
       IN /\ SplitsBack(s.currentPath)
          /\ \A other \in PwdPaths :
               getCurrentPath(other) = executeCommand(s, S("pwd"), Empty).ret.s
                 => other = s.currentPath

(* ------------------- several holders of the one tree -------------------- *)

\* directories another holder of the tree stands in
HolderPaths == {<<tHome>>, <<tHome, tUser>>}

\* listed items the File Manager's user picks
FmNames == {tUser, tDocuments}

\* the tree after a step of another holder: the emulator's own fields stay
OtherAfter(r) ==
  /\ fs' = r.fs
  /\ made' = IF Grows(r) THEN made + 1 ELSE made
  /\ UNCHANGED <<currentPath, env>>

\* a second emulator, standing in a directory that exists, runs rm
OtherEmulator ==
  \E path \in HolderPaths : \E i \in RmInputs :
    LET r == executeCommand([fs |-> fs, currentPath |-> path, env |-> initialEnv], i, Empty)
    IN /\ ResolvesToDirectory(fs, path)
       /\ Allowed(r)
       /\ OtherAfter(r)

\* the File Manager, showing a directory that exists, deletes a listed item
FmDelete ==
  \E path \in HolderPaths :
    /\ ResolvesToDirectory(fs, path)
    /\ \E item \in loadDirectory(fs, path) :
         /\ item.name \in FmNames
         /\ OtherAfter(handleDelete(fs, path, item))

\* the File Manager, showing a directory that exists, renames a listed item
FmRename ==
  \E path \in HolderPaths :
    /\ ResolvesToDirectory(fs, path)
    /\ \E item \in loadDirectory(fs, path) : \E newName \in {tD, tCtor} :
         /\ item.name \in FmNames
         /\ OtherAfter(handleRename(fs, path, item, newName))

NextShared == Next \/ OtherEmulator \/ FmDelete \/ FmRename

SpecShared == Init /\ [][NextShared]_vars

\* C30: when several holders operate on the one module-level tree (two
\* emulators, or an emulator and the File Manager's delete and rename), a
\* whole operation of another holder leaves the emulator's working directory
\* resolving to an existing Directory, so that ls, mkdir, touch, cat and rm
\* keep operating on a real directory.
C30_OtherHoldersKeepWorkingDirectory ==
  [][ (OtherEmulator \/ FmDelete \/ FmRename) /\ ResolvesToDirectory(fs, currentPath)
        => /\ ResolvesToDirectory(fs', currentPath')
           /\ lsCommand([fs |-> fs', currentPath |-> currentPath', env |-> env'], <<>>).ret
                # RetStr(S("ls: cannot access directory")) ]_vars

====
